---- MODULE Spec2Model ----
(***************************************************************************)
(* Model of the Article Summarizer relay (main.py): the /submit route,     *)
(* its request-body validation (ArticleSubmission, validate_url) and the   *)
(* forwarding of the payload to the n8n webhook, for a bounded number of   *)
(* concurrent requests.                                                    *)
(*                                                                         *)
(* Strings are sequences of one-character strings, so that strip(),        *)
(* startswith() and the URL regular expression are computed character by   *)
(* character.                                                              *)
(***************************************************************************)
EXTENDS Integers, Sequences, FiniteSets, TLC

\* Number of /submit requests the dispatcher handles concurrently.
NumRequests == 2

Requests == 1..NumRequests

-----------------------------------------------------------------------------
(* Characters and Python string helpers *)

LowerLetters == <<"a","b","c","d","e","f","g","h","i","j","k","l","m",
                  "n","o","p","q","r","s","t","u","v","w","x","y","z">>
UpperLetters == <<"A","B","C","D","E","F","G","H","I","J","K","L","M",
                  "N","O","P","Q","R","S","T","U","V","W","X","Y","Z">>
Digits == {"0","1","2","3","4","5","6","7","8","9"}
Whitespace == {" ", "\t", "\n", "\r", "\f"}

Range(f) == {f[i] : i \in DOMAIN f}

Letters == Range(LowerLetters) \cup Range(UpperLetters)

LowerOf ==
    [c \in Range(UpperLetters) |->
        LowerLetters[CHOOSE i \in DOMAIN UpperLetters : UpperLetters[i] = c]]

\* re.IGNORECASE: characters are compared after case folding
ToLower(c) == IF c \in DOMAIN LowerOf THEN LowerOf[c] ELSE c

IsAlpha(c) == c \in Letters
IsDigit(c) == c \in Digits
IsAlnum(c) == IsAlpha(c) \/ IsDigit(c)
IsSpace(c) == c \in Whitespace

LowerStr(s) == [i \in DOMAIN s |-> ToLower(s[i])]

\* str.strip(): drop leading and trailing whitespace
RECURSIVE LStrip(_)
LStrip(s) == IF s # <<>> /\ IsSpace(Head(s)) THEN LStrip(Tail(s)) ELSE s

RECURSIVE RStrip(_)
RStrip(s) ==
    IF s # <<>> /\ IsSpace(s[Len(s)]) THEN RStrip(SubSeq(s, 1, Len(s) - 1)) ELSE s

strip(s) == RStrip(LStrip(s))

\* str.startswith(prefix), case sensitive
startswith(s, prefix) ==
    /\ Len(s) >= Len(prefix)
    /\ SubSeq(s, 1, Len(prefix)) = prefix

\* the literal lit occurs in s at position i, ignoring case
LitAt(s, i, lit) ==
    /\ i + Len(lit) - 1 <= Len(s)
    /\ LowerStr(SubSeq(s, i, i + Len(lit) - 1)) = lit

\* every character of s[i..j-1] satisfies the class test P
AllIn(s, i, j, P(_)) == \A k \in i..(j - 1) : P(s[k])

-----------------------------------------------------------------------------
(* url_pattern of validate_url: each piece maps a start position to the    *)
(* set of positions at which a match of the piece can end, so the whole    *)
(* pattern matches iff some chain of pieces reaches the end of the string. *)

HTTP  == <<"h","t","t","p",":","/","/">>
HTTPS == <<"h","t","t","p","s",":","/","/">>
LOCALHOST == <<"l","o","c","a","l","h","o","s","t">>

IsLabelChar(c) == IsAlnum(c) \/ c = "-"

\* ^https?://
SchemeEnds(s) ==
    {j \in 1..(Len(s) + 1) :
        \/ j = Len(HTTP) + 1  /\ LitAt(s, 1, HTTP)
        \/ j = Len(HTTPS) + 1 /\ LitAt(s, 1, HTTPS)}

\* [A-Z0-9](?:[A-Z0-9-]{0,61}[A-Z0-9])?\.
LabelDotEnds(s, i) ==
    {j + 1 : j \in {k \in (i + 1)..(Len(s)) :
                      /\ k - i <= 63
                      /\ IsAlnum(s[i])
                      /\ IsAlnum(s[k - 1])
                      /\ AllIn(s, i, k, IsLabelChar)
                      /\ s[k] = "."}}

\* (?: label \.)+  : one or more labels, from any position of the set from
RECURSIVE LabelsPlus(_, _)
LabelsPlus(s, from) ==
    LET next == UNION {LabelDotEnds(s, i) : i \in from}
    IN  IF next = {} THEN {} ELSE next \cup LabelsPlus(s, next)

\* [A-Z]{2,6}\.?
TldEnds(s, i) ==
    LET ends == {j \in (i + 2)..(i + 6) : j <= Len(s) + 1 /\ AllIn(s, i, j, IsAlpha)}
    IN  ends \cup {j + 1 : j \in {k \in ends : k <= Len(s) /\ s[k] = "."}}

DomainEnds(s, i) == UNION {TldEnds(s, j) : j \in LabelsPlus(s, {i})}

LocalhostEnds(s, i) == IF LitAt(s, i, LOCALHOST) THEN {i + Len(LOCALHOST)} ELSE {}

\* \d{1,3}
OctetEnds(s, i) ==
    {j \in (i + 1)..(i + 3) : j <= Len(s) + 1 /\ AllIn(s, i, j, IsDigit)}

\* \d{1,3}\.
OctetDotEnds(s, i) == {j + 1 : j \in {k \in OctetEnds(s, i) : k <= Len(s) /\ s[k] = "."}}

\* \d{1,3}\.\d{1,3}\.\d{1,3}\.\d{1,3}
IpEnds(s, i) ==
    UNION {OctetEnds(s, l) :
             l \in UNION {OctetDotEnds(s, k) :
                    k \in UNION {OctetDotEnds(s, j) : j \in OctetDotEnds(s, i)}}}

HostEnds(s, i) == DomainEnds(s, i) \cup LocalhostEnds(s, i) \cup IpEnds(s, i)

\* (?::\d+)?
PortEnds(s, i) ==
    {i} \cup {j \in (i + 2)..(Len(s) + 1) :
                /\ i <= Len(s)
                /\ s[i] = ":"
                /\ AllIn(s, i + 1, j, IsDigit)}

\* $ : the end of the string, or just before a final newline
AtEnd(s, i) == i = Len(s) + 1 \/ (i = Len(s) /\ s[i] = "\n")

NotSpace(c) == ~IsSpace(c)

\* (?:/?|[/?]\S+)$
TailMatches(s, i) ==
    \/ AtEnd(s, i)
    \/ i <= Len(s) /\ s[i] = "/" /\ AtEnd(s, i + 1)
    \/ /\ i <= Len(s)
       /\ s[i] \in {"/", "?"}
       /\ \E j \in (i + 2)..(Len(s) + 1) :
             AllIn(s, i + 1, j, NotSpace) /\ AtEnd(s, j)

\* url_pattern.match(url_str)
url_pattern_match(s) ==
    \E a \in SchemeEnds(s) : \E b \in HostEnds(s, a) : \E c \in PortEnds(s, b) :
        TailMatches(s, c)

\* A call either returns a value or raises
Return(v) == [raised |-> FALSE, value |-> v]
Raise     == [raised |-> TRUE, value |-> <<>>]

\* the "Add protocol if missing" step
add_protocol(s) ==
    IF ~(startswith(s, HTTP) \/ startswith(s, HTTPS)) THEN HTTPS \o s ELSE s

\* validate_url without the pattern check
validate_url_lenient(url_str) == Return(add_protocol(strip(url_str)))

validate_url(url_str) ==
    LET cleaned == add_protocol(strip(url_str))
    IN  IF ~url_pattern_match(cleaned) THEN Raise ELSE Return(cleaned)

-----------------------------------------------------------------------------
(* ArticleSubmission: the request body as validated by pydantic *)

AtSign == "@"
LocalChars == {".", "-", "_", "+"}

IsLocalChar(c) == IsAlnum(c) \/ c \in LocalChars

AtPositions(s) == {i \in DOMAIN s : s[i] = AtSign}

\* dotted host name: two or more labels separated by single dots
IsHostName(d) == (Len(d) + 2) \in LabelsPlus(d \o <<".">>, LabelDotEnds(d \o <<".">>, 1))

\* the EmailStr field type: the address is trimmed, must be local@domain,
\* and is returned with its domain in lower case
EmailStr(v) ==
    LET email == strip(v)
        ats   == AtPositions(email)
        at    == CHOOSE i \in ats : TRUE
        local == SubSeq(email, 1, at - 1)
        dom   == SubSeq(email, at + 1, Len(email))
    IN  IF Cardinality(ats) # 1 THEN Raise
        ELSE IF \/ local = <<>>
                \/ ~AllIn(local, 1, Len(local) + 1, IsLocalChar)
                \/ local[1] = "." \/ local[Len(local)] = "."
                \/ ~IsHostName(dom)
             THEN Raise
             ELSE Return(local \o <<AtSign>> \o LowerStr(dom))

\* a validator that checks the URL but returns the value it was given
validate_article_url_raw(v) == IF validate_url(v).raised THEN Raise ELSE Return(v)

\* the article_url field: str, then the validate_article_url validator,
\* which turns validate_url's ValueError into a field error
validate_article_url(v) == validate_url(v)

\* ArticleSubmission(**body): every field is validated; any field error
\* makes the construction raise a validation error
ArticleSubmission(body) ==
    LET e == EmailStr(body.email)
        u == validate_article_url(body.article_url)
    IN  IF e.raised \/ u.raised THEN Raise
        ELSE Return([email |-> e.value, article_url |-> u.value])

-----------------------------------------------------------------------------
(* Request bodies the model submits *)

amy_email   == <<"a","m","y","@","x",".","i","o">>
bob_email   == <<" ","b","o","b","@","Y",".","o","r","g">>
bad_email   == <<"n","o","t","-","a","n","-","e","m","a","i","l">>
page_url    == <<"e","x","a","m","p","l","e",".","c","o","m","/","p","a","g","e">>
local_url   == <<" ","h","t","t","p",":","/","/","l","o","c","a","l","h","o","s","t",
                 ":","8","0","8","0","/","x"," ">>
bad_url     == <<"h","t","!","t","p",":","/","/","b","a","d">>
upper_url   == <<"H","T","T","P","S",":","/","/","A",".","I","O">>

Bodies ==
    { [email |-> amy_email, article_url |-> page_url],   \* amy@x.io, example.com/page
      [email |-> bob_email, article_url |-> local_url],  \* " bob@Y.org", " http://localhost:8080/x "
      [email |-> bad_email, article_url |-> page_url],   \* not-an-email
      [email |-> amy_email, article_url |-> bad_url],    \* ht!tp://bad
      [email |-> bob_email, article_url |-> upper_url] } \* HTTPS://A.IO

\* values of the N8N_WEBHOOK_URL environment variable: absent, empty, set
None == [none |-> TRUE]
WebhookUrls ==
    { None, <<>>,
      <<"h","t","t","p","s",":","/","/","n","8","n",".","i","o","/","w">> }

\* `not x` for an Optional[str]
Falsy(x) == x = None \/ x = <<>>

-----------------------------------------------------------------------------
(* Outcomes of `await client.post(...)` *)

OkStatuses == {200, 201}
StatusCodes == {200, 201, 404, 500}

\* exception classes and their direct base class (httpx, builtins)
BaseOf ==
    [ ConnectTimeout   |-> "TimeoutException",
      ReadTimeout      |-> "TimeoutException",
      TimeoutException |-> "TransportError",
      ConnectError     |-> "NetworkError",
      NetworkError     |-> "TransportError",
      TransportError   |-> "RequestError",
      RequestError     |-> "HTTPError",
      HTTPError        |-> "Exception",
      InvalidURL       |-> "Exception",
      Exception        |-> "BaseException" ]

RECURSIVE IsSubclass(_, _)
IsSubclass(c, base) ==
    \/ c = base
    \/ c \in DOMAIN BaseOf /\ IsSubclass(BaseOf[c], base)

\* exceptions the call raises in the model
RaisedExceptions == {"ConnectTimeout", "ReadTimeout", "ConnectError", "InvalidURL"}

Outcomes ==
    [kind : {"status"}, status_code : StatusCodes, exc : {"-"}]
      \cup [kind : {"raise"}, status_code : {0}, exc : RaisedExceptions]

NoOutcome == [kind |-> "none", status_code |-> 0, exc |-> "-"]

-----------------------------------------------------------------------------
(* Responses *)

MsgSubmitted == "Article submitted successfully. You'll receive the summary by email shortly."
MsgDelayed   == "Article submitted successfully. Processing may take a few minutes. Check your email."
MsgConfig    == "Service configuration error. Please contact administrator."
MsgUnavailable == "Service temporarily unavailable. Please try again later."
MsgUnexpected  == "An unexpected error occurred. Please try again later."
MsgValidation  == "validation error"

\* SubmissionResponse(success, message, session_id), sent with HTTP 200
SubmissionResponse(success, message, sid) ==
    [status |-> 200, success |-> success, message |-> message, session_id |-> sid]

\* HTTPException(status_code, detail), and FastAPI's 422 for a body that
\* fails validation
HTTPException(status_code, detail) ==
    [status |-> status_code, success |-> FALSE, message |-> detail, session_id |-> 0]

\* an exception that leaves the handler uncaught
Unhandled(exc) == [status |-> -1, success |-> FALSE, message |-> exc, session_id |-> 0]

-----------------------------------------------------------------------------
(* State *)

VARIABLES
    N8N_WEBHOOK_URL,  \* module global, read from the environment at start-up
    issued,           \* number of identifiers uuid.uuid4() has returned
    pc,               \* per request: "idle", "handler", "await", "done"
    body,             \* per request: the JSON body received
    submission,       \* per request: the validated ArticleSubmission
    session_id,       \* per request: the handler's local session_id (0: unbound)
    posted,           \* per request: the POSTs issued to the webhook, in order
    outcome,          \* per request: what `await client.post` produced
    response          \* per request: the responses sent to the caller, in order

vars == <<N8N_WEBHOOK_URL, issued, pc, body, submission, session_id, posted,
          outcome, response>>

NoBody == [email |-> <<>>, article_url |-> <<>>]

Init ==
    /\ N8N_WEBHOOK_URL \in WebhookUrls
    /\ issued = 0
    /\ pc = [r \in Requests |-> "idle"]
    /\ body = [r \in Requests |-> NoBody]
    /\ submission = [r \in Requests |-> NoBody]
    /\ session_id = [r \in Requests |-> 0]
    /\ posted = [r \in Requests |-> <<>>]
    /\ outcome = [r \in Requests |-> NoOutcome]
    /\ response = [r \in Requests |-> <<>>]

-----------------------------------------------------------------------------
(* submit_article *)

\* an identifier generator that returns the same identifier on every call
uuid4_constant(n) == 1

\* str(uuid.uuid4()): a random 122-bit identifier; two draws are taken never
\* to collide, so the n-th draw is modelled as the identifier n + 1
uuid4(n) == n + 1

\* a handler without the configuration check
ConfigMissing_skipped == FALSE

\* `if not N8N_WEBHOOK_URL`
ConfigMissing == Falsy(N8N_WEBHOOK_URL)

\* the n8n_payload dictionary
n8n_payload(sub, sid) ==
    [email |-> sub.email, article_url |-> sub.article_url, session_id |-> sid]

\* a handler that fails the request on a status outside [200, 201]
AfterPost_strict(status_code, sid) ==
    IF status_code \notin OkStatuses
    THEN HTTPException(502, MsgUnavailable)
    ELSE SubmissionResponse(TRUE, MsgSubmitted, sid)

\* the try body after the POST returned a response: a status outside
\* [200, 201] is only logged
AfterPost(status_code, sid) ==
    IF status_code \notin OkStatuses
    THEN SubmissionResponse(TRUE, MsgSubmitted, sid)
    ELSE SubmissionResponse(TRUE, MsgSubmitted, sid)

\* the except clauses of the try statement, in source order
ExceptClauses == <<"TimeoutException", "RequestError", "Exception">>

\* the except clauses with RequestError tried before TimeoutException
CaughtBy_reordered(exc) ==
    IF IsSubclass(exc, "RequestError") THEN 2
    ELSE IF IsSubclass(exc, "TimeoutException") THEN 1
    ELSE IF IsSubclass(exc, "Exception") THEN 3
    ELSE 0

\* index of the first except clause that matches the exception, 0 if none
CaughtBy(exc) ==
    LET matching == {i \in DOMAIN ExceptClauses : IsSubclass(exc, ExceptClauses[i])}
    IN  IF matching = {} THEN 0
        ELSE CHOOSE i \in matching : \A j \in matching : i <= j

\* a handler that answers every RequestError as it answers a timeout
HandleOutcome_lenient(o, sid) ==
    IF o.kind = "status" THEN SubmissionResponse(TRUE, MsgSubmitted, sid)
    ELSE IF IsSubclass(o.exc, "RequestError")
         THEN SubmissionResponse(TRUE, MsgDelayed, sid)
         ELSE HTTPException(500, MsgUnexpected)

\* a handler without the final `except Exception` clause
HandleOutcome_nobroad(o, sid) ==
    IF o.kind = "status" THEN SubmissionResponse(TRUE, MsgSubmitted, sid)
    ELSE IF IsSubclass(o.exc, "TimeoutException")
         THEN SubmissionResponse(TRUE, MsgDelayed, sid)
         ELSE IF IsSubclass(o.exc, "RequestError")
              THEN HTTPException(503, MsgUnavailable)
              ELSE Unhandled(o.exc)

\* the try statement from the point where `await client.post` completes
HandleOutcome(o, sid) ==
    IF o.kind = "status" THEN AfterPost(o.status_code, sid)
    ELSE CASE CaughtBy(o.exc) = 1 -> SubmissionResponse(TRUE, MsgDelayed, sid)
           [] CaughtBy(o.exc) = 2 -> HTTPException(503, MsgUnavailable)
           [] CaughtBy(o.exc) = 3 -> HTTPException(500, MsgUnexpected)
           [] OTHER -> Unhandled(o.exc)

\* send a response to the caller; the request is over
Respond(r, resp) ==
    /\ response' = [response EXCEPT ![r] = Append(@, resp)]
    /\ pc' = [pc EXCEPT ![r] = "done"]

\* a handler that keeps the session id in a module global, overwritten by
\* every request
SharedSessionId(r) == issued

\* the session_id the handler reads when it builds its response
LocalSessionId(r) == session_id[r]


\* A request arrives and FastAPI builds the ArticleSubmission from its body;
\* a body that fails validation is answered with 422 without calling the
\* handler.
Receive(r) ==
    /\ pc[r] = "idle"
    /\ \E b \in Bodies :
         LET m == ArticleSubmission(b)
         IN  /\ body' = [body EXCEPT ![r] = b]
             /\ IF m.raised
                THEN /\ Respond(r, HTTPException(422, MsgValidation))
                     /\ UNCHANGED submission
                ELSE /\ submission' = [submission EXCEPT ![r] = m.value]
                     /\ pc' = [pc EXCEPT ![r] = "handler"]
                     /\ UNCHANGED response
    /\ UNCHANGED <<N8N_WEBHOOK_URL, issued, session_id, posted, outcome>>

\* The handler runs from its entry to `await client.post(...)`: the
\* configuration check, the session id, the payload and the POST.
StartHandler(r) ==
    /\ pc[r] = "handler"
    /\ IF ConfigMissing
       THEN /\ Respond(r, HTTPException(500, MsgConfig))
            /\ UNCHANGED <<issued, session_id, posted>>
       ELSE LET sid == uuid4(issued)
            IN  /\ issued' = issued + 1
                /\ session_id' = [session_id EXCEPT ![r] = sid]
                /\ posted' = [posted EXCEPT ![r] =
                       Append(@, [url  |-> N8N_WEBHOOK_URL,
                                  json |-> n8n_payload(submission[r], sid)])]
                /\ pc' = [pc EXCEPT ![r] = "await"]
                /\ UNCHANGED response
    /\ UNCHANGED <<N8N_WEBHOOK_URL, body, submission, outcome>>

\* a handler that sends the POST a second time after a network error
Complete_retry(r) ==
    /\ pc[r] = "await"
    /\ \E o \in Outcomes :
         /\ outcome' = [outcome EXCEPT ![r] = o]
         /\ IF o.kind = "raise" /\ CaughtBy(o.exc) = 2 /\ Len(posted[r]) < 2
            THEN /\ posted' = [posted EXCEPT ![r] = Append(@, @[1])]
                 /\ UNCHANGED <<pc, response>>
            ELSE /\ Respond(r, HandleOutcome(o, session_id[r]))
                 /\ UNCHANGED posted
    /\ UNCHANGED <<N8N_WEBHOOK_URL, issued, body, submission, session_id>>

\* `await client.post(...)` completes: the webhook answers with some status,
\* or the call raises (the 60 second timeout bounds the wait); the handler
\* resumes and runs to its return or raise.
Complete(r) ==
    /\ pc[r] = "await"
    /\ \E o \in Outcomes :
         /\ outcome' = [outcome EXCEPT ![r] = o]
         /\ Respond(r, HandleOutcome(o, LocalSessionId(r)))
    /\ UNCHANGED <<N8N_WEBHOOK_URL, issued, body, submission, session_id, posted>>

Next ==
    \E r \in Requests :
        \/ Receive(r)
        \/ StartHandler(r)
        \/ Complete(r)

Spec == Init /\ [][Next]_vars

\* The event loop runs every handler that is ready, and the POST is bounded
\* by its timeout, so a received request is never left waiting forever.
FairSpec ==
    /\ Spec
    /\ \A r \in Requests :
         /\ WF_vars(StartHandler(r))
         /\ WF_vars(Complete(r))

-----------------------------------------------------------------------------
(* Properties *)

Received(r) == pc[r] # "idle"
Done(r)     == pc[r] = "done"
\* the normalization the specification describes, written out on its own
Trimmed(raw) ==
    LET first == CHOOSE i \in DOMAIN raw :
                    raw[i] \notin Whitespace /\ \A k \in 1..(i - 1) : raw[k] \in Whitespace
        last  == CHOOSE i \in DOMAIN raw :
                    raw[i] \notin Whitespace /\ \A k \in (i + 1)..Len(raw) : raw[k] \in Whitespace
    IN  IF \A i \in DOMAIN raw : raw[i] \in Whitespace THEN <<>>
        ELSE SubSeq(raw, first, last)

HasScheme(t) ==
    \/ Len(t) >= 7 /\ SubSeq(t, 1, 7) = <<"h","t","t","p",":","/","/">>
    \/ Len(t) >= 8 /\ SubSeq(t, 1, 8) = <<"h","t","t","p","s",":","/","/">>

Normalized(raw) ==
    IF HasScheme(Trimmed(raw)) THEN Trimmed(raw)
    ELSE <<"h","t","t","p","s",":","/","/">> \o Trimmed(raw)

\* what validation makes of each body, and the normalized form of its URL
Validated    == [b \in Bodies |-> ArticleSubmission(b)]
NormalizedOf == [b \in Bodies |-> Normalized(b.article_url)]
ValidEmailOf == [b \in Bodies |-> EmailStr(b.email).value]

ValidBody(r) == Received(r) /\ ~Validated[body[r]].raised
Configured  == N8N_WEBHOOK_URL # None /\ N8N_WEBHOOK_URL # <<>>

Str_https_example_com_page ==
    <<"h","t","t","p","s",":","/","/","e","x","a","m","p","l","e",".","c","o","m",
      "/","p","a","g","e">>

Rejected422(r) ==
    /\ Done(r)
    /\ response[r] = <<HTTPException(422, MsgValidation)>>
    /\ posted[r] = <<>>
    /\ session_id[r] = 0

\* C1: a received request whose email is malformed ("not-an-email") or whose
\* article_url fails URL validation ("ht!tp://bad", "HTTPS://A.IO") is answered
\* with 422, and in no state has a POST been issued or a session id been
\* generated for it, whatever the webhook configuration.
C1_InvalidBodyRejectedBeforeSideEffects ==
    \A r \in Requests :
        /\ (Received(r) /\ (body[r].email = bad_email
                             \/ body[r].article_url \in {bad_url, upper_url}))
              => Rejected422(r)
        /\ (Received(r) /\ ~ValidBody(r)) => Rejected422(r)

C1_Witness ==
    /\ \E r \in Requests : Done(r) /\ body[r].email = bad_email /\ Rejected422(r)
    /\ \E r \in Requests : Done(r) /\ body[r].article_url = bad_url /\ Rejected422(r)

\* C2: with the webhook URL unset, a request with a valid body never has a
\* POST issued for it and ends with HTTP 500 and the generic configuration
\* message.
C2_UnsetWebhookFailsWithoutNetworkCall ==
    \A r \in Requests :
        (N8N_WEBHOOK_URL = None /\ ValidBody(r)) =>
            /\ posted[r] = <<>>
            /\ pc[r] \in {"handler", "done"}
            /\ Done(r) => response[r] = <<HTTPException(500, MsgConfig)>>

C2_Witness ==
    \E r \in Requests :
        /\ N8N_WEBHOOK_URL = None
        /\ ValidBody(r)
        /\ Done(r)
        /\ response[r] = <<HTTPException(500, MsgConfig)>>

IsTimeout(o) == o.kind = "raise" /\ o.exc \in {"ConnectTimeout", "ReadTimeout"}
IsNetworkError(o) == o.kind = "raise" /\ o.exc = "ConnectError"

\* C3: a request whose POST raised a connection error (a request error that
\* is not a timeout) ends with HTTP 503 and no response with success=true.
C3_ConnectionErrorGives503 ==
    \A r \in Requests :
        (Done(r) /\ IsNetworkError(outcome[r])) =>
            /\ response[r] = <<HTTPException(503, MsgUnavailable)>>
            /\ \A i \in DOMAIN response[r] : ~response[r][i].success

C3_Witness ==
    \E r \in Requests :
        /\ Done(r)
        /\ IsNetworkError(outcome[r])
        /\ response[r][1].status = 503

\* C4: a request whose POST timed out (while connecting or while reading)
\* ends with HTTP 200, success=true, its own session_id and the
\* delayed-processing message, never with 503.
C4_TimeoutGivesDelayedSuccess ==
    \A r \in Requests :
        (Done(r) /\ IsTimeout(outcome[r])) =>
            /\ session_id[r] # 0
            /\ response[r] = <<[status |-> 200, success |-> TRUE,
                                message |-> MsgDelayed,
                                session_id |-> session_id[r]]>>

C4_Witness ==
    /\ \E r \in Requests :
         Done(r) /\ outcome[r].exc = "ConnectTimeout" /\ response[r][1].message = MsgDelayed
    /\ \E r \in Requests :
         Done(r) /\ outcome[r].exc = "ReadTimeout" /\ response[r][1].message = MsgDelayed

\* C5: a request whose POST completed with any HTTP status, 200/201 or not,
\* ends with the same response: HTTP 200, success=true, the success message
\* and the request's session_id.
C5_DownstreamStatusNeverChangesResponse ==
    \A r \in Requests :
        (Done(r) /\ outcome[r].kind = "status") =>
            /\ session_id[r] # 0
            /\ response[r] = <<[status |-> 200, success |-> TRUE,
                                message |-> MsgSubmitted,
                                session_id |-> session_id[r]]>>

C5_Witness ==
    /\ \E r \in Requests : Done(r) /\ outcome[r].status_code = 404 /\ response[r][1].success
    /\ \E r \in Requests : Done(r) /\ outcome[r].status_code = 500 /\ response[r][1].success

\* C6: the article_url of every payload POSTed for a request is the
\* normalized form of the article_url received: trimmed, with "https://"
\* prepended exactly when the trimmed input has no "http://" or "https://"
\* prefix; "example.com/page" is forwarded as "https://example.com/page", and
\* an input that differs from its normalized form is never forwarded raw.
C6_ForwardedUrlIsNormalized ==
    \A r \in Requests : \A i \in DOMAIN posted[r] :
        /\ posted[r][i].json.article_url = NormalizedOf[body[r]]
        /\ body[r].article_url = page_url =>
              posted[r][i].json.article_url = Str_https_example_com_page
        /\ body[r].article_url # NormalizedOf[body[r]] =>
              posted[r][i].json.article_url # body[r].article_url

C6_Witness ==
    /\ \E r \in Requests :
         /\ body[r].article_url = page_url
         /\ posted[r] # <<>>
         /\ posted[r][1].json.article_url = Str_https_example_com_page
    /\ \E r \in Requests :
         /\ body[r].article_url = local_url
         /\ posted[r] # <<>>
         /\ posted[r][1].json.article_url # local_url

SuccessWithFreshSession(r) ==
    /\ Len(response[r]) = 1
    /\ response[r][1].status = 200
    /\ response[r][1].success
    /\ response[r][1].session_id \in 1..issued
    /\ \A q \in Requests \ {r} : \A i \in DOMAIN response[q] :
          response[q][i].session_id # response[r][1].session_id

\* C7 as stated: every finished request with a valid email and URL has
\* success=true and a fresh, well-formed session id.
C7_Original_ValidBodyAlwaysSucceeds ==
    \A r \in Requests : (Done(r) /\ ValidBody(r)) => SuccessWithFreshSession(r)

\* C7 as amended: a finished request with a valid email and URL, handled with
\* the webhook URL configured and whose POST completed with some HTTP status
\* or timed out, has success=true and a well-formed session id that no other
\* request's response carries.
C7_ValidBodySucceedsUnlessConfigOrTransportFailure ==
    \A r \in Requests :
        (Done(r) /\ ValidBody(r) /\ Configured
           /\ (outcome[r].kind = "status" \/ IsTimeout(outcome[r])))
            => SuccessWithFreshSession(r)

C7_Witness ==
    \E r, q \in Requests :
        /\ r # q
        /\ Done(r) /\ Done(q)
        /\ body[r] = body[q]
        /\ outcome[r].kind = "status" /\ IsTimeout(outcome[q])
        /\ SuccessWithFreshSession(r) /\ SuccessWithFreshSession(q)

\* C8: no request ever has more than one POST issued for it, and a finished
\* request with a valid body and a configured webhook URL has exactly one,
\* whatever the POST's outcome.
C8_SinglePostPerRequest ==
    \A r \in Requests :
        /\ Len(posted[r]) <= 1
        /\ (ValidBody(r) /\ Configured /\ pc[r] # "handler") => Len(posted[r]) = 1

C8_Witness ==
    /\ \E r \in Requests : Done(r) /\ IsNetworkError(outcome[r]) /\ Len(posted[r]) = 1
    /\ \E r \in Requests : Done(r) /\ outcome[r].status_code = 500 /\ Len(posted[r]) = 1

\* the uniform response shapes: the SubmissionResponse, or an error status
\* with a detail message
UniformResponse(resp) ==
    \/ /\ resp.status = 200
       /\ resp.success
       /\ resp.message \in {MsgSubmitted, MsgDelayed}
       /\ resp.session_id # 0
    \/ /\ resp.status \in {422, 500, 503}
       /\ ~resp.success
       /\ resp.message \in {MsgValidation, MsgConfig, MsgUnavailable, MsgUnexpected}

\* C9: no request ever has more than one response, and every received request
\* eventually is finished with exactly one response of the uniform shape,
\* whatever the downstream outcome; no exception leaves the handler uncaught.
C9_EveryRequestEndsWithOneResponse ==
    \A r \in Requests :
        /\ [](Len(response[r]) <= 1)
        /\ Received(r) ~> (Done(r) /\ Len(response[r]) = 1
                             /\ UniformResponse(response[r][1]))

C9_Witness ==
    \E r \in Requests :
        /\ Done(r)
        /\ outcome[r].exc = "InvalidURL"
        /\ response[r] = <<HTTPException(500, MsgUnexpected)>>

\* C10: every payload POSTed for a request carries that request's validated
\* email, its normalized URL and its session_id; the session_id of a success
\* response is the one in the request's payload and is no other request's.
C10_RequestsShareNoState ==
    \A r \in Requests :
        /\ \A i \in DOMAIN posted[r] :
              /\ posted[r][i].json.email = ValidEmailOf[body[r]]
              /\ posted[r][i].json.article_url = NormalizedOf[body[r]]
              /\ posted[r][i].json.session_id = session_id[r]
              /\ \A q \in Requests \ {r} : posted[r][i].json.session_id # session_id[q]
        /\ \A i \in DOMAIN response[r] :
              response[r][i].success =>
                  /\ posted[r] # <<>>
                  /\ response[r][i].session_id = posted[r][1].json.session_id
                  /\ \A q \in Requests \ {r} :
                        response[r][i].session_id # session_id[q]

C10_Witness ==
    \E r, q \in Requests :
        /\ r # q
        /\ body[r] # body[q]
        /\ pc[q] = "await"
        /\ session_id[q] # 0
        /\ session_id[q] < session_id[r]
        /\ Done(r)
        /\ response[r][1].success
        /\ response[r][1].session_id = posted[r][1].json.session_id

====
